---- MODULE Spec2Model ----
(***************************************************************************)
(* A model of breadx-shm: the client side of the X11 MIT-SHM extension.    *)
(*                                                                         *)
(*   src/src/shm.rs   ShmBlock (one System V segment: shmget, shmat, and   *)
(*                    shmdt + shmctl(IPC_RMID) in Drop), ShmTransport      *)
(*   src/src/lib.rs   ShmSegment / ShmBuffer (a block plus the identifier  *)
(*                    registered with the server), attach, detach and the  *)
(*                    ShmDisplayExt put / get operations                   *)
(*                                                                         *)
(* The display connection, the X server and the kernel are the environment *)
(* of the program: every display call can fail, the server finishes the    *)
(* puts it accepted in any order, and it sends a completion event for the  *)
(* puts that asked for one.                                                *)
(***************************************************************************)
EXTENDS Integers, Sequences, FiniteSets

\* ------------------------------------------------------------------ bounds

\* slots for ShmSegment objects (send side)
MaxSegs == 3

\* slots for ShmBuffer objects (receive side)
MaxBufs == 1

\* the contents a block or a segment can have are 0 .. MaxVal
MaxVal == 1

\* calls the program makes in one run
MaxCalls == 6

\* events other than ShmCompletion the server sends in one run
MaxOther == 1

\* display calls that return an error in one run
MaxFails == 1

\* the first identifier generate_xid hands out
FirstXid == 2

\* the first handle shmget hands out
FirstShmId == 1

Segs == 1 .. MaxSegs

Bufs == (MaxSegs + 1) .. (MaxSegs + MaxBufs)

Objs == Segs \cup Bufs

\* the values generate_xid can return in one run (one per slot at most)
Xids == FirstXid .. (FirstXid + MaxSegs + MaxBufs - 1)

\* the values shmget can return in one run (one per slot at most)
ShmIds == FirstShmId .. (FirstShmId + MaxSegs + MaxBufs - 1)

\* the contents of a block or a segment, taken as a whole
Vals == 0 .. MaxVal

\* ------------------------------------------------------------------ state

VARIABLES
    objs,       \* the ShmSegment / ShmBuffer objects of the program
    os,         \* the kernel's view of every System V segment
    nextShm,    \* the next handle shmget returns
    nextXid,    \* the next identifier generate_xid returns
    registered, \* server: identifier -> handle, for the attached segments
    inflight,   \* server: puts accepted and not yet finished
    events,     \* the connection's incoming event stream
    otherSent,  \* how many non-completion events the server has sent
    sink,       \* the queue the caller passes to shm_put_ximage
    pc,         \* where the program is
    cur,        \* the object of the shm_put_ximage call in progress
    readLog,    \* events read by the current / last shm_put_ximage call
    sinkStart,  \* the sink as it was when that call began
    calls,      \* calls the program has made so far
    fails,      \* display calls that have returned an error so far
    handedOn,   \* identifiers whose ShmCompletion went to a sink during another wait
    last,       \* the last call of the program and what came of it
    data,       \* ShmTransport of every ShmBuffer: the bytes of block and of segment
    trip,       \* the block a publish started from, while a repopulate may follow it
    failedIds   \* identifiers whose shm_attach_checked returned an error

vars == << objs, os, nextShm, nextXid, registered, inflight, events, otherSent,
           sink, pc, cur, readLog, sinkStart, calls, fails, handedOn, last,
           data, trip, failedIds >>

\* ShmSegment { block: ShmBlock { shm_id, ptr }, seg_id }
\* ShmBuffer  { transport: ShmTransport { block, segment: ShmBlock }, seg_id }
\* st: "none" (not created), "live" (owned by the program), "gone" (consumed
\* by detach, dropped, or never returned by a failed attach)
NoObj == [st |-> "none", seg_id |-> 0, shm_id |-> 0]

\* a segment the kernel has not handed out.
\* alloc: shmget returned it; mapped: attached to this process by shmat;
\* rmid: shmctl(IPC_RMID) was called on it; srv: the X server has it attached;
\* created: with_flags returned Ok for it; drops: how often Drop ran on its block
NoOsSeg == [alloc |-> FALSE, mapped |-> FALSE, rmid |-> FALSE, srv |-> FALSE,
            flags |-> "none", created |-> FALSE, drops |-> 0]

\* the server's entry for an identifier no segment is attached under
NotRegistered == [shmid |-> 0, read_only |-> FALSE]

\* op: the call; obj: the object it was made on; res: what it returned; sent:
\* whether its request went out; shmseg: the identifier the request carried;
\* req: what the put request of shm_put_ximage returned; region: the memory an
\* as_mut call handed out ("segment": the shared memory, "block": the heap block);
\* held: whether the segment was still mapped when a detach request went out
NoCall == [op |-> "none", obj |-> 0, res |-> "none", sent |-> FALSE, shmseg |-> 0,
           req |-> "none", region |-> "none", held |-> FALSE]

\* ShmTransport { block, segment } as ShmTransport::new leaves it: block is
\* vec![0; len], and the kernel hands out a new segment filled with zeros
NoData == [block |-> 0, segment |-> 0]

\* no publish that a repopulate could complete to a round trip
NoTrip == [obj |-> 0, before |-> 0]

\* Event::ShmCompletion(ShmCompletionEvent { shmseg, .. })
ShmCompletion(x) == [type |-> "ShmCompletion", val |-> x]

\* any other variant of Event; n tells two of them apart
OtherEvent(n) == [type |-> "Other", val |-> n]

Init ==
    /\ objs = [o \in Objs |-> NoObj]
    /\ os = [h \in ShmIds |-> NoOsSeg]
    /\ nextShm = FirstShmId
    /\ nextXid = FirstXid
    /\ registered = [x \in Xids |-> NotRegistered]
    /\ inflight = [x \in Xids |-> [b \in BOOLEAN |-> 0]]
    /\ events = << >>
    /\ otherSent = 0
    /\ sink = << >>
    /\ pc = "idle"
    /\ cur = 0
    /\ readLog = << >>
    /\ sinkStart = << >>
    /\ calls = 0
    /\ fails = 0
    /\ handedOn = {}
    /\ last = NoCall
    /\ data = [o \in Bufs |-> NoData]
    /\ trip = NoTrip
    /\ failedIds = {}

\* ------------------------------------------------------------------ shm.rs

\* libc::S_IRWXU | libc::S_IRGRP | libc::S_IROTH
Flags0744 == "0744"

\* libc::S_IRWXU | libc::S_IRWXG | libc::S_IRWXO
Flags0777 == "0777"

\* libc::shmget succeeded and returned handle h
OsShmget(osf, h, flags) == [osf EXCEPT ![h].alloc = TRUE, ![h].flags = flags]

\* libc::shmat succeeded on handle h; with_flags then returns Ok(ShmBlock)
OsShmat(osf, h) == [osf EXCEPT ![h].mapped = TRUE, ![h].created = TRUE]

\* ShmBlock::with_flags returning Ok: shmget, then shmat
with_flags(osf, h, flags) == OsShmat(OsShmget(osf, h, flags), h)

\* ShmBlock::new: with_flags(len, 0744)
ShmBlockNew(osf, h) == with_flags(osf, h, Flags0744)

\* ShmTransport::new: the private block, then with_flags(len, 0777)
ShmTransportNew(osf, h) == with_flags(osf, h, Flags0777)

\* a publish that copies the other way
publishFromSegment(t) == [t EXCEPT !.block = t.segment]

\* ShmTransport::publish: self.segment.copy_from_slice(&self.block)
publish(t) == [t EXCEPT !.segment = t.block]

\* ShmTransport::repopulate: self.block.copy_from_slice(&self.segment)
repopulate(t) == [t EXCEPT !.block = t.segment]

\* a Drop that unmaps the segment and leaves it to the kernel
DropBlockShmdtOnly(osf, h) ==
    [osf EXCEPT ![h].mapped = FALSE, ![h].drops = @ + 1]

\* impl Drop for ShmBlock: shmdt, then shmctl(IPC_RMID)
DropBlock(osf, h) ==
    [osf EXCEPT ![h].mapped = FALSE, ![h].rmid = TRUE, ![h].drops = @ + 1]

\* the kernel keeps a segment until it is marked for removal and nothing is
\* attached to it any more
OsExists(h) == os[h].alloc /\ ~(os[h].rmid /\ ~os[h].mapped /\ ~os[h].srv)

\* ------------------------------------------------------------------ lib.rs

\* the program is between two calls
Callable == pc \in {"idle", "done", "err"}

\* the program makes its next call
BeginCall == Callable /\ calls < MaxCalls /\ calls' = calls + 1

\* the arguments of the last shm_put_ximage call and what it read are forgotten
\* when the program makes its next call
ForgetPut == cur' = 0 /\ readLog' = << >> /\ sinkStart' = << >> /\ sink' = << >>

\* a call other than publish and repopulate ends the publish / repopulate pair
ForgetTrip == trip' = NoTrip

\* what the caller's queue can hold when it is passed to shm_put_ximage
Queues == {<< >>, << OtherEvent(0) >>}

\* slots are taken in order
NextSlot(o) ==
    /\ objs[o].st = "none"
    /\ \A p \in Objs : (p < o /\ (p \in Segs <=> o \in Segs)) => objs[p].st # "none"

\* what ShmSegment::attach / ShmBuffer::attach create first
NewBlock(osf, o, h) == IF o \in Segs THEN ShmBlockNew(osf, h) ELSE ShmTransportNew(osf, h)

\* an attach that registers every segment as writable
AttachWritable(o) == FALSE

\* the read_only argument of shm_attach_checked: true for ShmSegment, false for ShmBuffer
AttachReadOnly(o) == o \in Segs

\* attach, ShmBlock::new(len).unwrap() panics: shmget failed
AttachShmgetFails(o) ==
    /\ BeginCall /\ NextSlot(o)
    /\ last' = [op |-> "attach", obj |-> o, res |-> "panic", sent |-> FALSE, shmseg |-> 0,
                req |-> "none", region |-> "none", held |-> FALSE]
    /\ pc' = "panic"
    /\ ForgetPut
    /\ ForgetTrip
    /\ UNCHANGED << objs, os, nextShm, nextXid, registered, inflight, events,
                    otherSent, fails, handedOn, data, failedIds >>

\* attach, ShmBlock::new(len).unwrap() panics: shmget succeeded and shmat failed;
\* with_flags returns the error without touching the segment shmget made
AttachShmatFails(o) ==
    /\ BeginCall /\ NextSlot(o)
    /\ os' = OsShmget(os, nextShm, IF o \in Segs THEN Flags0744 ELSE Flags0777)
    /\ nextShm' = nextShm + 1
    /\ last' = [op |-> "attach", obj |-> o, res |-> "panic", sent |-> FALSE, shmseg |-> 0,
                req |-> "none", region |-> "none", held |-> FALSE]
    /\ pc' = "panic"
    /\ ForgetPut
    /\ ForgetTrip
    /\ UNCHANGED << objs, nextXid, registered, inflight, events, otherSent, fails,
                    handedOn, data, failedIds >>

\* an attach that hands out the object although the server refused the segment
AttachErrKeepsObj(h, x) == [st |-> "live", seg_id |-> x, shm_id |-> h]

\* what is left of the object of an attach that returned through `?`: no Self
\* was built, so nothing holds identifier x, and the block with handle h was
\* dropped
AttachErr(h, x) == [st |-> "gone", seg_id |-> 0, shm_id |-> h]

\* attach, display.generate_xid()? returns the error: block goes out of scope
AttachXidFails(o) ==
    /\ BeginCall /\ NextSlot(o)
    /\ fails < MaxFails
    /\ fails' = fails + 1
    /\ objs' = [objs EXCEPT ![o] = AttachErr(nextShm, 0)]
    /\ os' = DropBlock(NewBlock(os, o, nextShm), nextShm)
    /\ nextShm' = nextShm + 1
    /\ last' = [op |-> "attach", obj |-> o, res |-> "err", sent |-> FALSE, shmseg |-> 0,
                req |-> "none", region |-> "none", held |-> FALSE]
    /\ pc' = "idle"
    /\ ForgetPut
    /\ ForgetTrip
    /\ UNCHANGED << nextXid, registered, inflight, events, otherSent, handedOn, data,
                    failedIds >>

\* attach, display.shm_attach_checked(..)? returns the error: the server did not
\* attach the segment, and block goes out of scope
AttachRequestFails(o) ==
    /\ BeginCall /\ NextSlot(o)
    /\ fails < MaxFails
    /\ fails' = fails + 1
    /\ objs' = [objs EXCEPT ![o] = AttachErr(nextShm, nextXid)]
    /\ os' = DropBlock(NewBlock(os, o, nextShm), nextShm)
    /\ nextShm' = nextShm + 1
    /\ nextXid' = nextXid + 1
    /\ last' = [op |-> "attach", obj |-> o, res |-> "err", sent |-> TRUE, shmseg |-> nextXid,
                req |-> "none", region |-> "none", held |-> FALSE]
    /\ pc' = "idle"
    /\ ForgetPut
    /\ ForgetTrip
    /\ failedIds' = failedIds \cup {nextXid}
    /\ UNCHANGED << registered, inflight, events, otherSent, handedOn, data >>

\* attach returns Ok(Self { block, seg_id })
AttachOk(o) ==
    /\ BeginCall /\ NextSlot(o)
    /\ objs' = [objs EXCEPT ![o] = [st |-> "live", seg_id |-> nextXid, shm_id |-> nextShm]]
    /\ os' = [NewBlock(os, o, nextShm) EXCEPT ![nextShm].srv = TRUE]
    /\ registered' = [registered EXCEPT ![nextXid] =
                        [shmid |-> nextShm, read_only |-> AttachReadOnly(o)]]
    /\ nextShm' = nextShm + 1
    /\ nextXid' = nextXid + 1
    /\ last' = [op |-> "attach", obj |-> o, res |-> "ok", sent |-> TRUE, shmseg |-> nextXid,
                req |-> "none", region |-> "none", held |-> FALSE]
    /\ pc' = "idle"
    /\ ForgetPut
    /\ ForgetTrip
    /\ UNCHANGED << inflight, events, otherSent, fails, handedOn, data, failedIds >>

\* the heap block and the mapping of a ShmTransport go away with the ShmBuffer
DropData(o) == IF o \in Bufs THEN [data EXCEPT ![o] = NoData] ELSE data

\* one of the two things detach does to the segment with handle h: the request,
\* after which the server has let go of the segment if it succeeded, or the
\* Drop of the block
DetachStep(osf, h, step, ok) ==
    IF step = "drop" THEN DropBlock(osf, h)
    ELSE IF ok THEN [osf EXCEPT ![h].srv = FALSE] ELSE osf

\* a detach that drops the block and then sends the request
DetachOrderDropFirst == << "drop", "request" >>

\* detach(self, display): display.shm_detach_checked(self.seg_id) is the body,
\* and self is dropped when the body has been evaluated
DetachOrder == << "request", "drop" >>

\* ShmSegment::detach / ShmBuffer::detach: shm_detach_checked(self.seg_id), and
\* self goes out of scope as the call returns. ok: whether the request succeeded
Detach(o, ok) ==
    /\ BeginCall
    /\ objs[o].st = "live"
    /\ ok \/ fails < MaxFails
    /\ fails' = IF ok THEN fails ELSE fails + 1
    /\ objs' = [objs EXCEPT ![o].st = "gone"]
    /\ registered' = IF ok THEN [registered EXCEPT ![objs[o].seg_id] = NotRegistered]
                     ELSE registered
    /\ LET h == objs[o].shm_id
           first == DetachStep(os, h, DetachOrder[1], ok)
       IN  /\ os' = DetachStep(first, h, DetachOrder[2], ok)
           /\ last' = [op |-> "detach", obj |-> o, res |-> IF ok THEN "ok" ELSE "err",
                       sent |-> TRUE, shmseg |-> objs[o].seg_id,
                       req |-> "none", region |-> "none",
                       held |-> IF DetachOrder[1] = "request" THEN os[h].mapped
                                ELSE first[h].mapped]
    /\ pc' = "idle"
    /\ ForgetPut
    /\ ForgetTrip
    /\ data' = DropData(o)
    /\ UNCHANGED << nextShm, nextXid, inflight, events, otherSent, handedOn, failedIds >>

\* a ShmSegment / ShmBuffer goes out of scope without detach: only Drop runs
DropObj(o) ==
    /\ BeginCall
    /\ objs[o].st = "live"
    /\ objs' = [objs EXCEPT ![o].st = "gone"]
    /\ os' = DropBlock(os, objs[o].shm_id)
    /\ last' = [op |-> "drop", obj |-> o, res |-> "ok", sent |-> FALSE, shmseg |-> 0,
                req |-> "none", region |-> "none", held |-> FALSE]
    /\ pc' = "idle"
    /\ ForgetPut
    /\ ForgetTrip
    /\ data' = DropData(o)
    /\ UNCHANGED << nextShm, nextXid, registered, inflight, events, otherSent, fails,
                    handedOn, failedIds >>

\* image.storage().seg_id: the identifier shm_put_ximage* name the segment by
PutShmseg(o) == objs[o].seg_id

\* image.storage().shm_id() as _: the value shm_get_ximage names the segment by
GetShmseg(o) == objs[o].shm_id

\* a waiting put that does not ask for the ShmCompletion event
PutSendEventFalse == FALSE

\* the send_event argument shm_put_ximage passes to shm_put_ximage_neh_checked
PutSendEvent == TRUE

\* the server knows identifier v
IsRegistered(v) == v \in Xids /\ registered[v] # NotRegistered

\* the server takes a put request for identifier x into work
ServerAcceptPut(x, send_event) ==
    [inflight EXCEPT ![x][send_event] = @ + 1]

\* shm_put_ximage_neh: shm_put_image(..)?, the cookie is returned unchecked.
\* ok: whether the request could be sent
shm_put_ximage_neh(o, send_event, ok) ==
    /\ BeginCall
    /\ o \in Segs /\ objs[o].st = "live"
    /\ ok \/ fails < MaxFails
    /\ fails' = IF ok THEN fails ELSE fails + 1
    /\ inflight' = IF ok /\ IsRegistered(PutShmseg(o))
                   THEN ServerAcceptPut(PutShmseg(o), send_event) ELSE inflight
    /\ last' = [op |-> "put_neh", obj |-> o, res |-> IF ok THEN "ok" ELSE "err",
                sent |-> ok, shmseg |-> PutShmseg(o), req |-> "none", region |-> "none", held |-> FALSE]
    /\ pc' = "idle"
    /\ ForgetPut
    /\ ForgetTrip
    /\ UNCHANGED << objs, os, nextShm, nextXid, registered, events, otherSent, handedOn,
                    data, failedIds >>

\* shm_put_ximage_neh_checked: shm_put_image(..)?, then wait_for_reply(cookie).
\* ok: whether the request was sent and the server raised no error for it
shm_put_ximage_neh_checked(o, send_event, ok) ==
    /\ BeginCall
    /\ o \in Segs /\ objs[o].st = "live"
    /\ ok \/ fails < MaxFails
    /\ fails' = IF ok THEN fails ELSE fails + 1
    /\ inflight' = IF ok /\ IsRegistered(PutShmseg(o))
                   THEN ServerAcceptPut(PutShmseg(o), send_event) ELSE inflight
    /\ last' = [op |-> "put_neh_checked", obj |-> o, res |-> IF ok THEN "ok" ELSE "err",
                sent |-> TRUE, shmseg |-> PutShmseg(o), req |-> "none", region |-> "none", held |-> FALSE]
    /\ pc' = "idle"
    /\ ForgetPut
    /\ ForgetTrip
    /\ UNCHANGED << objs, os, nextShm, nextXid, registered, events, otherSent, handedOn,
                    data, failedIds >>

\* a shm_put_ximage that goes into its loop whatever the put request returned
AfterPutRequestIgnored(ok) == "wait"

\* shm_put_ximage_neh_checked(..)? in shm_put_ximage: the error is returned, and
\* the loop is entered only after Ok
AfterPutRequest(ok) == IF ok THEN "wait" ELSE "err"

\* shm_put_ximage up to the loop: shm_put_ximage_neh_checked(.., true)?
shm_put_ximage(o, ok) ==
    /\ BeginCall
    /\ o \in Segs /\ objs[o].st = "live"
    /\ ok \/ fails < MaxFails
    /\ fails' = IF ok THEN fails ELSE fails + 1
    /\ inflight' = IF ok /\ IsRegistered(PutShmseg(o))
                   THEN ServerAcceptPut(PutShmseg(o), PutSendEvent) ELSE inflight
    /\ last' = [op |-> "put", obj |-> o, res |-> IF ok THEN "pending" ELSE "err",
                sent |-> TRUE, shmseg |-> PutShmseg(o),
                req |-> IF ok THEN "ok" ELSE "err", region |-> "none", held |-> FALSE]
    /\ pc' = AfterPutRequest(ok)
    /\ cur' = o
    /\ ForgetTrip
    /\ readLog' = << >>
    /\ sink' \in Queues
    /\ sinkStart' = sink'
    /\ UNCHANGED << objs, os, nextShm, nextXid, registered, events, otherSent, handedOn,
                    data, failedIds >>

\* a loop that compares with the handle of the segment
WaitTargetShmId(o) == objs[o].shm_id

\* image.storage().seg_id in the loop of shm_put_ximage: the identifier a
\* ShmCompletion event is compared with
WaitTarget(o) == objs[o].seg_id

\* a match that breaks on the ShmCompletion event of any segment
EventFilterAnyCompletion(event, seg_id) ==
    IF event.type = "ShmCompletion" THEN "break" ELSE "forward"

\* the match in the loop of shm_put_ximage: break on the ShmCompletion event of
\* this image's segment, hand every other event on
EventFilter(event, seg_id) ==
    IF event.type = "ShmCompletion" /\ event.val = seg_id THEN "break" ELSE "forward"

\* a loop that stores only the events that are not ShmCompletion events
QueueExtendNotShm(queue, event) ==
    IF event.type = "ShmCompletion" THEN queue ELSE Append(queue, event)

\* queue.extend(Some(event))
QueueExtend(queue, event) == Append(queue, event)

\* one turn of the loop of shm_put_ximage: wait_for_event()? returned an event
WaitEvent ==
    /\ pc = "wait"
    /\ events # << >>
    /\ LET event == Head(events)
           verdict == EventFilter(event, WaitTarget(cur))
       IN  /\ events' = Tail(events)
           /\ readLog' = Append(readLog, event)
           /\ IF verdict = "break"
              THEN /\ pc' = "done"
                   /\ last' = [last EXCEPT !.res = "ok"]
                   /\ sink' = sink
                   /\ handedOn' = handedOn
              ELSE /\ pc' = "wait"
                   /\ last' = last
                   /\ sink' = QueueExtend(sink, event)
                   /\ handedOn' = IF event.type = "ShmCompletion"
                                  THEN handedOn \cup {event.val} ELSE handedOn
    /\ UNCHANGED << objs, os, nextShm, nextXid, registered, inflight, otherSent,
                    cur, sinkStart, calls, fails, data, failedIds, trip >>

\* a loop that takes a failed read for the end of the wait
OnWaitErrorBreak == "done"

\* wait_for_event()? in the loop of shm_put_ximage: the error is returned
OnWaitError == "err"

\* one turn of the loop of shm_put_ximage: wait_for_event()? returned the error
WaitEventFails ==
    /\ pc = "wait"
    /\ fails < MaxFails
    /\ fails' = fails + 1
    /\ pc' = OnWaitError
    /\ last' = [last EXCEPT !.res = IF OnWaitError = "err" THEN "err" ELSE "ok"]
    /\ UNCHANGED << objs, os, nextShm, nextXid, registered, inflight, events, otherSent,
                    sink, cur, readLog, sinkStart, calls, handedOn, data, failedIds,
                    trip >>

\* the server writes v into the segment with handle h; d: the transports
ServerWrite(d, h, v) ==
    [b \in Bufs |-> IF objs[b].st = "live" /\ objs[b].shm_id = h
                    THEN [d[b] EXCEPT !.segment = v] ELSE d[b]]

\* a get that copies the segment before it has looked at the reply
GetOnErrorRepopulates(t) == repopulate(t)

\* shm_get_image_immediate(..)? in shm_get_ximage: the error is returned, and
\* image.storage_mut().repopulate() is not reached
GetOnError(t) == t

\* shm_get_ximage: shm_get_image_immediate(.., shmseg, 0)?, then repopulate.
\* The server answers a get only for an identifier it has a writable segment
\* under, and it has written the image, v, into that segment when it answers;
\* ok: whether it answers this one
shm_get_ximage(o, ok, v) ==
    /\ BeginCall
    /\ o \in Bufs /\ objs[o].st = "live"
    /\ ok => (IsRegistered(GetShmseg(o)) /\ ~registered[GetShmseg(o)].read_only)
    /\ ~ok => v = 0
    /\ LET written == IF ok THEN ServerWrite(data, registered[GetShmseg(o)].shmid, v)
                      ELSE data
       IN  data' = [written EXCEPT ![o] = IF ok THEN repopulate(@) ELSE GetOnError(@)]
    /\ last' = [op |-> "get", obj |-> o, res |-> IF ok THEN "ok" ELSE "err",
                sent |-> TRUE, shmseg |-> GetShmseg(o), req |-> "none", region |-> "none", held |-> FALSE]
    /\ pc' = "idle"
    /\ ForgetPut
    /\ ForgetTrip
    /\ UNCHANGED << objs, os, nextShm, nextXid, registered, inflight, events,
                    otherSent, fails, handedOn, failedIds >>

\* ShmBuffer::repopulate: self.transport.repopulate()
ShmBufferRepopulate(o) ==
    /\ BeginCall
    /\ o \in Bufs /\ objs[o].st = "live"
    /\ data' = [data EXCEPT ![o] = repopulate(@)]
    /\ trip' = IF trip.obj = o THEN trip ELSE NoTrip
    /\ last' = [op |-> "repopulate", obj |-> o, res |-> "ok", sent |-> FALSE, shmseg |-> 0,
                req |-> "none", region |-> "none", held |-> FALSE]
    /\ pc' = "idle"
    /\ ForgetPut
    /\ UNCHANGED << objs, os, nextShm, nextXid, registered, inflight, events,
                    otherSent, fails, handedOn, failedIds >>

\* ShmTransport::publish on the transport of a ShmBuffer (the crate has the
\* method and no caller of it)
Publish(o) ==
    /\ BeginCall
    /\ o \in Bufs /\ objs[o].st = "live"
    /\ data' = [data EXCEPT ![o] = publish(@)]
    /\ trip' = [obj |-> o, before |-> data[o].block]
    /\ last' = [op |-> "publish", obj |-> o, res |-> "ok", sent |-> FALSE, shmseg |-> 0,
                req |-> "none", region |-> "none", held |-> FALSE]
    /\ pc' = "idle"
    /\ ForgetPut
    /\ UNCHANGED << objs, os, nextShm, nextXid, registered, inflight, events,
                    otherSent, fails, handedOn, failedIds >>

\* shmseg.seg_id: the identifier shm_create_pixmap_transport* name the segment by
PixmapShmseg(o) == objs[o].seg_id

\* shm_create_pixmap_transport: shm_create_pixmap(.., shmseg.seg_id, offset), the
\* cookie is returned unchecked. ok: whether the request could be sent
shm_create_pixmap_transport(o, ok) ==
    /\ BeginCall
    /\ o \in Bufs /\ objs[o].st = "live"
    /\ ok \/ fails < MaxFails
    /\ fails' = IF ok THEN fails ELSE fails + 1
    /\ last' = [op |-> "create_pixmap", obj |-> o, res |-> IF ok THEN "ok" ELSE "err",
                sent |-> ok, shmseg |-> PixmapShmseg(o), req |-> "none", region |-> "none", held |-> FALSE]
    /\ pc' = "idle"
    /\ ForgetPut
    /\ ForgetTrip
    /\ UNCHANGED << objs, os, nextShm, nextXid, registered, inflight, events,
                    otherSent, handedOn, data, failedIds >>

\* shm_create_pixmap_transport_checked: shm_create_pixmap_checked(..). ok:
\* whether the request was sent and the server raised no error for it
shm_create_pixmap_transport_checked(o, ok) ==
    /\ BeginCall
    /\ o \in Bufs /\ objs[o].st = "live"
    /\ ok \/ fails < MaxFails
    /\ fails' = IF ok THEN fails ELSE fails + 1
    /\ last' = [op |-> "create_pixmap_checked", obj |-> o,
                res |-> IF ok THEN "ok" ELSE "err",
                sent |-> TRUE, shmseg |-> PixmapShmseg(o), req |-> "none", region |-> "none", held |-> FALSE]
    /\ pc' = "idle"
    /\ ForgetPut
    /\ ForgetTrip
    /\ UNCHANGED << objs, os, nextShm, nextXid, registered, inflight, events,
                    otherSent, handedOn, data, failedIds >>

\* a ShmBuffer whose as_mut hands out the memory the server can write to
AsMutRegionSegment(o) == "segment"

\* the memory as_mut hands out: self.block.as_mut(), the mapped segment, for a
\* ShmSegment; self.transport.as_mut(), &mut self.block, for a ShmBuffer
AsMutRegion(o) == IF o \in Segs THEN "segment" ELSE "block"

\* the caller writes v through the slice as_mut gave it
WriteRegion(t, region, v) ==
    IF region = "block" THEN [t EXCEPT !.block = v] ELSE [t EXCEPT !.segment = v]

\* AsMut / BorrowMut / DerefMut for ShmSegment and ShmBuffer: the slice is
\* handed out unconditionally, and the caller writes v through it (the bytes
\* of a ShmSegment are not part of the state)
AsMut(o, v) ==
    /\ BeginCall
    /\ objs[o].st = "live"
    /\ o \in Segs => v = 0
    /\ data' = IF o \in Bufs THEN [data EXCEPT ![o] = WriteRegion(@, AsMutRegion(o), v)]
               ELSE data
    /\ last' = [op |-> "as_mut", obj |-> o, res |-> "ok", sent |-> FALSE, shmseg |-> 0,
                req |-> "none", region |-> AsMutRegion(o), held |-> FALSE]
    /\ pc' = "idle"
    /\ ForgetPut
    /\ ForgetTrip
    /\ UNCHANGED << objs, os, nextShm, nextXid, registered, inflight, events,
                    otherSent, fails, handedOn, failedIds >>

\* ------------------------------------------------------------------ the server

\* the server has finished reading the segment for one of the puts it accepted,
\* and sends the ShmCompletion event if the put asked for it
ServerComplete(x, send_event) ==
    /\ inflight[x][send_event] > 0
    /\ inflight' = [inflight EXCEPT ![x][send_event] = @ - 1]
    /\ events' = IF send_event THEN Append(events, ShmCompletion(x)) ELSE events
    /\ UNCHANGED << objs, os, nextShm, nextXid, registered, otherSent,
                    sink, pc, cur, readLog, sinkStart, calls, fails, last, handedOn,
                    data, failedIds, trip >>

\* the server writes v into the segment of a ShmBuffer: it has the segment
\* attached as writable and can write to it at any time
PeerWrite(o, v) ==
    /\ o \in Bufs /\ objs[o].st = "live"
    /\ IsRegistered(objs[o].seg_id) /\ ~registered[objs[o].seg_id].read_only
    /\ data[o].segment # v
    /\ data' = ServerWrite(data, objs[o].shm_id, v)
    /\ trip' = IF trip.obj = o THEN NoTrip ELSE trip
    /\ UNCHANGED << objs, os, nextShm, nextXid, registered, inflight, events, otherSent,
                    sink, pc, cur, readLog, sinkStart, calls, fails, last, handedOn,
                    failedIds >>

\* the server sends an event that is not a ShmCompletion
ServerOther ==
    /\ otherSent < MaxOther
    /\ otherSent' = otherSent + 1
    /\ events' = Append(events, OtherEvent(otherSent + 1))
    /\ UNCHANGED << objs, os, nextShm, nextXid, registered, inflight,
                    sink, pc, cur, readLog, sinkStart, calls, fails, last, handedOn,
                    data, failedIds, trip >>

\* ------------------------------------------------------------------ specification

Next ==
    \/ \E o \in Objs : AttachShmgetFails(o)
    \/ \E o \in Objs : AttachShmatFails(o)
    \/ \E o \in Objs : AttachXidFails(o)
    \/ \E o \in Objs : AttachRequestFails(o)
    \/ \E o \in Objs : AttachOk(o)
    \/ \E o \in Objs, ok \in BOOLEAN : Detach(o, ok)
    \/ \E o \in Objs : DropObj(o)
    \/ \E o \in Objs, v \in Vals : AsMut(o, v)
    \/ \E o \in Objs, send_event \in BOOLEAN, ok \in BOOLEAN :
            shm_put_ximage_neh(o, send_event, ok)
    \/ \E o \in Objs, send_event \in BOOLEAN, ok \in BOOLEAN :
            shm_put_ximage_neh_checked(o, send_event, ok)
    \/ \E o \in Objs, ok \in BOOLEAN : shm_put_ximage(o, ok)
    \/ WaitEvent
    \/ WaitEventFails
    \/ \E o \in Objs, ok \in BOOLEAN, v \in Vals : shm_get_ximage(o, ok, v)
    \/ \E o \in Objs : ShmBufferRepopulate(o)
    \/ \E o \in Objs : Publish(o)
    \/ \E o \in Objs, ok \in BOOLEAN : shm_create_pixmap_transport(o, ok)
    \/ \E o \in Objs, ok \in BOOLEAN : shm_create_pixmap_transport_checked(o, ok)
    \/ \E o \in Objs, v \in Vals : PeerWrite(o, v)
    \/ \E x \in Xids, send_event \in BOOLEAN : ServerComplete(x, send_event)
    \/ ServerOther

Spec == Init /\ [][Next]_vars

\* the client's loop keeps reading while events are there, and the server
\* finishes every put it accepted
FairSpec ==
    /\ Spec
    /\ WF_vars(WaitEvent)
    /\ \A x \in Xids : WF_vars(ServerComplete(x, TRUE))

\* ------------------------------------------------------------------ properties

\* the ShmCompletion event that ends the wait of the put on object o
Matching(o) == ShmCompletion(objs[o].seg_id)

\* a shm_put_ximage call is in its loop or has just returned
InPut == cur # 0 /\ pc \in {"wait", "done", "err"}

\* positions of s that hold event e
Positions(s, e) == {i \in 1 .. Len(s) : s[i] = e}

\* the puts on object o the server has not finished, plus those whose
\* ShmCompletion event the client has not read yet
InFlightCount(o) ==
    IF objs[o].seg_id \in Xids
    THEN inflight[objs[o].seg_id][TRUE] + inflight[objs[o].seg_id][FALSE]
         + Cardinality(Positions(events, Matching(o)))
    ELSE 0

\* a put on object o has been issued and its completion is not confirmed
InFlight(o) == InFlightCount(o) > 0

\* what a segment records about being shared with the server: ShmBlock has the
\* fields shm_id and ptr, and nothing in it is set or cleared around a put
Shared(o) == FALSE

IsForeign(e) == e # Matching(cur)

IsCompletion(e) == e.type = "ShmCompletion"

\* C1: a waiting put has returned success only if the last event it read is the
\* ShmCompletion of its own segment and no earlier event it read was; while it
\* has not read one it is still waiting (or has failed)
C1_ReturnsOnlyAfterMatch ==
    InPut =>
        /\ pc = "done" <=> Positions(readLog, Matching(cur)) # {}
        /\ Positions(readLog, Matching(cur)) \subseteq {Len(readLog)}
        /\ last.op = "put" /\ (last.res = "ok" <=> pc = "done")

\* C1 witness: a waiting put returned after reading events that were not its own
C1_Witness ==
    /\ InPut /\ pc = "done"
    /\ Len(readLog) >= 2
    /\ readLog[Len(readLog)] = Matching(cur)

C3_WaitCompletes == (pc = "wait") ~> (pc \in {"done", "err"})

\* C3 witness: the wait for a segment completed after a ShmCompletion event of
\* that segment had been read, and handed to the sink, during the wait for
\* another segment
C3_Witness ==
    /\ InPut /\ pc = "done"
    /\ objs[cur].seg_id \in handedOn

\* the segments the program attached under identifier x
Owners(x) == {o \in Segs : objs[o].st # "none" /\ objs[o].seg_id = x}

\* C4: every ShmCompletion event read during a wait carries the identifier of
\* exactly one segment; it ends the wait if and only if that segment is the one
\* waited for, and otherwise goes to the sink, in the order of arrival
C4_ExactSegmentReleased ==
    (InPut /\ pc # "err") =>
        /\ \A i \in 1 .. Len(readLog) :
              IsCompletion(readLog[i]) =>
                 /\ Cardinality(Owners(readLog[i].val)) = 1
                 /\ Owners(readLog[i].val) = {cur} <=> (i = Len(readLog) /\ pc = "done")
        /\ SelectSeq(SubSeq(sink, Len(sinkStart) + 1, Len(sink)), IsCompletion)
             = SelectSeq(SelectSeq(readLog, IsForeign), IsCompletion)

\* C4 witness: three segments with a put in flight each, the ShmCompletion
\* events read in the order 3, 2, 1, and the wait for segment 1 ended on the last
C4_Witness ==
    /\ InPut /\ pc = "done" /\ cur = 1
    /\ \A o \in 1 .. 3 : o \in Segs /\ objs[o].st = "live"
    /\ readLog = << Matching(3), Matching(2), Matching(1) >>
    /\ SubSeq(sink, Len(sinkStart) + 1, Len(sink)) = << Matching(3), Matching(2) >>

\* C5: mutable access to the bytes of a segment that is shared with the server
\* does not succeed
C5_NoMutWhileShared ==
    (last.op = "as_mut" /\ last.obj \in Segs /\ InFlight(last.obj)) => last.res # "ok"

\* C6: at most one put is in flight on a segment
C6_OnePutInFlight == \A o \in Segs : InFlightCount(o) <= 1

\* C7: a detach while a put on the segment is in flight is rejected and the
\* detach request is not sent
C7_DetachRejectedInFlight ==
    (last.op = "detach" /\ InFlight(last.obj)) => (~last.sent /\ last.res = "precondition")

\* C8: a live segment is marked shared exactly while a put on it is in flight
C8_SharedWhileInFlight ==
    \A o \in Segs : objs[o].st = "live" => (Shared(o) <=> InFlight(o))

\* C9: every put and get request names the segment by the identifier that was
\* registered for it at attach
C9_RequestNamesSegId ==
    (last.op \in {"put", "put_neh", "put_neh_checked", "get"} /\ last.sent)
        => last.shmseg = objs[last.obj].seg_id

\* a live object owns the block with handle h
Owned(h) == \E o \in Objs : objs[o].st = "live" /\ objs[o].shm_id = h

\* C10: Drop runs exactly once on every block that was created, when its owner
\* goes away and not before: the segment is then unmapped and marked for
\* removal, and it is gone from the kernel unless the server has it attached;
\* a block whose attach failed is released in the same way
C10_ReleasedExactlyOnce ==
    /\ \A h \in ShmIds :
          /\ os[h].drops <= 1
          /\ Owned(h) => (os[h].created /\ os[h].drops = 0 /\ os[h].mapped /\ ~os[h].rmid)
          /\ (os[h].created /\ ~Owned(h)) =>
                (os[h].drops = 1 /\ ~os[h].mapped /\ os[h].rmid)
          /\ (os[h].created /\ ~Owned(h) /\ ~os[h].srv) => ~OsExists(h)
    /\ \A o \in Objs :
          (objs[o].st = "gone" /\ objs[o].seg_id = 0) =>
             (os[objs[o].shm_id].drops = 1 /\ ~OsExists(objs[o].shm_id))

\* C10 witness: an attach failed after its block was created, and the block was
\* released; another block was released by detach
C10_Witness ==
    /\ \E o \in Objs : /\ objs[o].st = "gone" /\ objs[o].seg_id = 0
                       /\ os[objs[o].shm_id].created /\ ~OsExists(objs[o].shm_id)
    /\ \E o \in Objs : /\ objs[o].st = "gone" /\ objs[o].seg_id # 0
                       /\ os[objs[o].shm_id].drops = 1 /\ ~OsExists(objs[o].shm_id)

\* C11: a segment that shmget allocated and shmat could not map is destroyed
\* before with_flags returns the error: no segment that never came out of
\* with_flags is left in the kernel
C11_NoLeakOnMapFailure ==
    \A h \in ShmIds : (os[h].alloc /\ ~os[h].created) => ~OsExists(h)

\* C12: every failure comes back to the caller as an error value; attach does
\* not abort the program when the kernel refuses to create or map the segment
C12_ErrorsRecoverable ==
    /\ pc # "panic"
    /\ last.op = "attach" => last.res \in {"ok", "err"}

\* the calls that send a request naming a segment that is attached
RequestOps == {"put", "put_neh", "put_neh_checked", "get", "create_pixmap",
               "create_pixmap_checked", "detach"}

\* the calls whose request takes the identifier from the seg_id of the object
SegIdOps == RequestOps \ {"get"}

C14_IdInValidityWindow ==
    [][ /\ (calls' # calls /\ last'.op \in RequestOps /\ last'.sent) =>
              \E o \in Objs : objs[o].st = "live" /\ objs[o].seg_id = last'.shmseg
        /\ \A o \in Objs : objs[o].st = "gone" => objs'[o].st = "gone" ]_vars

\* C15: the segment of a transport changes only by a publish (to the block's
\* bytes) or by a write of the server, and as_mut leaves it as it is; the
\* block changes only by a call on that ShmBuffer, either a write through
\* as_mut or a repopulate (alone or at the end of a get, to the segment's
\* bytes), and a write of the server leaves it as it is
C15_SegmentOnlyByPullPush ==
    [][ \A o \in Bufs : (objs[o].st = "live" /\ objs'[o].st = "live") =>
          /\ data'[o].segment # data[o].segment =>
                \/ calls' = calls
                \/ /\ last'.op = "publish" /\ last'.obj = o
                   /\ data'[o].segment = data[o].block
                \/ last'.op = "get" /\ last'.res = "ok"
          /\ data'[o].block # data[o].block =>
                /\ calls' # calls /\ last'.obj = o
                /\ \/ last'.op = "as_mut"
                   \/ /\ last'.op \in {"repopulate", "get"}
                      /\ data'[o].block = data'[o].segment
          /\ (calls' # calls /\ last'.op = "as_mut") =>
                data'[o].segment = data[o].segment
          /\ (calls' # calls /\ last'.op = "publish") =>
                data'[o].block = data[o].block ]_vars

\* C15 witness: the block was written through as_mut and the segment still has
\* other bytes
C15_Witness ==
    \E o \in Bufs : /\ last.op = "as_mut" /\ last.obj = o /\ last.region = "block"
                     /\ data[o].block = 1 /\ data[o].segment = 0

\* C16: after a publish, and after a repopulate that follows it with no write
\* of the server to the segment in between, the block has the bytes it had
\* before the publish and the segment has the same bytes
C16_PushPullRoundTrip ==
    (last.op \in {"publish", "repopulate"} /\ trip.obj # 0) =>
        /\ trip.obj = last.obj
        /\ data[trip.obj].block = trip.before
        /\ data[trip.obj].segment = trip.before

\* C16 witness: a repopulate completed a round trip of bytes the caller wrote
C16_Witness ==
    /\ last.op = "repopulate" /\ trip.obj = last.obj
    /\ trip.before = 1 /\ data[trip.obj].block = 1

\* C17: a get that returned Ok left the block equal to the segment; a get that
\* returned the error left the block as it was before the call
C17_GetPullsAfterReply ==
    [][ (calls' # calls /\ last'.op = "get") =>
          IF last'.res = "ok"
          THEN data'[last'.obj].block = data'[last'.obj].segment
          ELSE data'[last'.obj].block = data[last'.obj].block ]_vars

\* C17 witness: a get returned Ok and the block has the image the server wrote
C17_Witness ==
    /\ last.op = "get" /\ last.res = "ok"
    /\ data[last.obj].block = 1 /\ data[last.obj].segment = 1

\* C18: the segment of a ShmSegment is created with 0744 and registered
\* read-only; the segment of a ShmBuffer is created with 0777 and registered
\* writable; the server can write to a segment only if it was created 0777;
\* and as_mut hands out the shared memory only for a ShmSegment
C18_PermissionsBySide ==
    /\ \A o \in Objs : objs[o].st # "none" =>
          /\ os[objs[o].shm_id].flags = IF o \in Segs THEN Flags0744 ELSE Flags0777
          /\ IsRegistered(objs[o].seg_id) =>
                /\ registered[objs[o].seg_id].shmid = objs[o].shm_id
                /\ registered[objs[o].seg_id].read_only <=> o \in Segs
    /\ \A x \in Xids : IsRegistered(x) =>
          (registered[x].read_only <=> os[registered[x].shmid].flags = Flags0744)
    /\ last.op = "as_mut" =>
          /\ last.region = "segment" <=> last.obj \in Segs
          /\ last.region = "block" <=> last.obj \in Bufs

\* C18 witness: a ShmSegment and a ShmBuffer are attached, and as_mut was
\* called on the ShmBuffer
C18_Witness ==
    /\ \E o \in Segs : objs[o].st = "live" /\ IsRegistered(objs[o].seg_id)
    /\ \E o \in Bufs : /\ objs[o].st = "live" /\ IsRegistered(objs[o].seg_id)
                       /\ last.op = "as_mut" /\ last.obj = o

\* C19: a shm_put_ximage whose put request failed has returned the error, has
\* read no event and has added nothing to the sink
C19_FailedPutDoesNotWait ==
    (last.op = "put" /\ last.req = "err") =>
        /\ pc = "err" /\ last.res = "err"
        /\ readLog = << >>
        /\ sink = sinkStart

\* C19 witness: the put request failed while events were waiting to be read
\* and the sink was not empty
C19_Witness ==
    /\ last.op = "put" /\ last.req = "err" /\ pc = "err"
    /\ events # << >> /\ sinkStart # << >>

\* C20: a shm_put_ximage whose put request succeeded returns Ok only on its
\* own ShmCompletion; when reading an event failed it has returned the error,
\* and the sink holds what it held before followed by every event read, each
\* once and in the order read
C20_WaitErrorReturned ==
    (last.op = "put" /\ last.req = "ok" /\ pc # "wait") =>
        \/ /\ pc = "done" /\ last.res = "ok"
           /\ readLog # << >> /\ readLog[Len(readLog)] = Matching(cur)
        \/ /\ pc = "err" /\ last.res = "err"
           /\ Positions(readLog, Matching(cur)) = {}
           /\ sink = sinkStart \o readLog

\* C20 witness: reading failed after two events had been forwarded to a sink
\* that was not empty
C20_Witness ==
    /\ last.op = "put" /\ last.req = "ok" /\ pc = "err"
    /\ Len(readLog) = 2 /\ sinkStart # << >>

\* C21: a detach has sent the request for the identifier of its object while
\* the segment was still mapped, and when it has returned, with Ok or with the
\* error, the object is gone and Drop has run once on its block: the segment is
\* unmapped and marked for removal
C21_DetachRequestThenRelease ==
    last.op = "detach" =>
        /\ last.sent /\ last.held
        /\ last.shmseg = objs[last.obj].seg_id
        /\ objs[last.obj].st = "gone"
        /\ os[objs[last.obj].shm_id].drops = 1
        /\ ~os[objs[last.obj].shm_id].mapped /\ os[objs[last.obj].shm_id].rmid
        /\ last.res = "ok" =>
              (~IsRegistered(last.shmseg) /\ ~OsExists(objs[last.obj].shm_id))

\* C21 witness: a detach request failed and its segment was released, after
\* another segment had been detached with success and released
C21_Witness ==
    /\ last.op = "detach" /\ last.res = "err"
    /\ os[objs[last.obj].shm_id].drops = 1
    /\ \E o \in Objs : /\ o # last.obj /\ objs[o].st = "gone" /\ objs[o].seg_id # 0
                       /\ ~IsRegistered(objs[o].seg_id)
                       /\ os[objs[o].shm_id].drops = 1

====
